---- MODULE Spec2Model ----
(***************************************************************************)
(* A model of the memory_map crate: the Mmap facade of src/lib.rs over the *)
(* platform backend MmapInner (posix.rs / windows.rs), one backing file,   *)
(* the operating system's page cache and durable storage, and the threads  *)
(* that own mapping handles.                                               *)
(*                                                                         *)
(* Offsets and indices are 0-based as in the Rust code; TLA+ sequences are *)
(* 1-based, so byte i of the code is element i + 1 of a sequence.          *)
(***************************************************************************)
EXTENDS Integers, Sequences, FiniteSets, TLC

\* Largest file length and largest anonymous length explored.
MaxLen == 2

\* Byte values explored (u8 restricted to two values; 0 is the zero-fill byte).
Bytes == {0, 1}
\* Slots for the mappings created during one run.
Handles == {1, 2}
\* thread::spawn in test::send: the creating thread and one spawned thread.
Threads == {"main", "worker"}

Protections == {"Read", "ReadWrite", "ReadCopy"}

VARIABLES
    fmeta,   \* the file at the path: [exists, writable]
    orig,    \* the file's contents before any mapping was created
    disk,    \* the file's contents on durable storage
    cache,   \* the file's pages as shared mappings see them
    handle,  \* handle[h]: the OS mapping of slot h and the Mmap that wraps it
    asked,   \* asked[h]: the protection the caller asked for slot h
    held,    \* held[t]: the Mmap values thread t owns
    last,    \* the outcome of the last call
    pc,      \* the position of a test body (the scenario specifications)
    tbuf     \* the buffer a test body writes

vars == <<fmeta, orig, disk, cache, handle, asked, held, last, pc, tbuf>>

\* What a call on a mapping leaves alone besides the mapping and the file.
scenario == <<pc, tbuf>>

Min(a, b) == IF a < b THEN a ELSE b

SeqsUpTo(n) == UNION {[1..k -> Bytes] : k \in 0..n}

Zeros(n) == [i \in 1..n |-> 0]

\* seq with bytes copied in from 0-based offset lo on.
Overlay(seq, lo, bytes) ==
    [i \in 1..Len(seq) |->
        IF lo < i /\ i <= lo + Len(bytes) THEN bytes[i - lo] ELSE seq[i]]

(***************************************************************************)
(* Protection (src/lib.rs)                                                 *)
(***************************************************************************)

\* Protection::write with ReadCopy left out of the match.
Protection_write_ReadWriteOnly(prot) == prot = "ReadWrite"

\* Protection::write with every variant in the match.
Protection_write_always(prot) == TRUE

Protection_write(prot) == prot \in {"ReadWrite", "ReadCopy"}

as_open_options(prot) == [read |-> TRUE, write |-> Protection_write(prot)]

(***************************************************************************)
(* The platform backend MmapInner                                          *)
(***************************************************************************)

NoOptions == [read |-> FALSE, write |-> FALSE]

NoMapping ==
    [st |-> "free", kind |-> "none", prot |-> "Read", len |-> 0,
     mem |-> <<>>, own |-> {}, fopts |-> NoOptions, unmaps |-> 0]

\* MmapInner::open: open the file with the protection's options, take its
\* length, reject a zero length, map the whole file.
Inner_open(prot) ==
    LET opts == as_open_options(prot) IN
    IF ~fmeta.exists \/ (opts.write /\ ~fmeta.writable)
    THEN [res |-> "io", inner |-> NoMapping]
    ELSE IF Len(cache) = 0
    THEN [res |-> "invalid", inner |-> NoMapping]
    ELSE [res |-> "ok",
          inner |-> [st |-> "mapped", kind |-> "file", prot |-> prot,
                     len |-> Len(cache),
                     mem |-> IF prot = "ReadCopy" THEN Zeros(Len(cache)) ELSE <<>>,
                     own |-> {}, fopts |-> opts, unmaps |-> 0]]

\* MmapInner::anonymous: a zero-filled private region of exactly len bytes.
Inner_anonymous(len, prot) ==
    IF len = 0
    THEN [res |-> "invalid", inner |-> NoMapping]
    ELSE [res |-> "ok",
          inner |-> [st |-> "mapped", kind |-> "anon", prot |-> prot,
                     len |-> len, mem |-> Zeros(len), own |-> {},
                     fopts |-> NoOptions, unmaps |-> 0]]

Inner_len(m) == m.len

\* Deref for MmapInner: the bytes the mapping reads, pages being the file's
\* pages. A shared file mapping
\* reads the file's pages; a copy-on-write mapping reads its own copy of the
\* bytes it owns and the file's pages elsewhere; an anonymous mapping reads
\* its own memory.
Inner_deref(m, pages) ==
    IF m.kind = "anon" THEN m.mem
    ELSE IF m.prot = "ReadCopy"
    THEN [i \in 1..m.len |-> IF i \in m.own THEN m.mem[i] ELSE pages[i]]
    ELSE pages

\* DerefMut for MmapInner: mutable access to a Read mapping panics.
Inner_deref_mut(m) == IF m.prot = "Read" THEN "panic" ELSE "ok"

\* A store of bytes at offset lo through the mutable region: the mapping's
\* own memory after it.
StoreMem(m, lo, bytes) ==
    IF m.kind = "anon"
    THEN [m EXCEPT !.mem = Overlay(m.mem, lo, bytes)]
    ELSE IF m.prot = "ReadCopy"
    THEN [m EXCEPT !.mem = Overlay(m.mem, lo, bytes),
                   !.own = m.own \cup {i \in 1..m.len : lo < i /\ i <= lo + Len(bytes)}]
    ELSE m

\* ... and the file's pages after it: only a shared file mapping writes them.
StoreCache(m, lo, bytes) ==
    IF m.kind = "file" /\ m.prot # "ReadCopy"
    THEN Overlay(cache, lo, bytes)
    ELSE cache

\* MmapInner::flush: the outcomes of a synchronous flush. A ReadWrite file
\* mapping has its dirty pages on storage when the call succeeds; the OS
\* primitive may fail. Nothing is said of a Read file mapping: the
\* file's dirty pages may or may not be written. ReadCopy and anonymous
\* mappings have nothing to write and succeed.
Inner_flush(m) ==
    IF m.kind = "file" /\ m.prot = "ReadWrite"
    THEN {[res |-> "ok", disk |-> cache], [res |-> "io", disk |-> disk]}
    ELSE IF m.kind = "file" /\ m.prot = "Read"
    THEN {[res |-> "ok", disk |-> cache], [res |-> "ok", disk |-> disk],
          [res |-> "io", disk |-> disk]}
    ELSE {[res |-> "ok", disk |-> disk]}

\* MmapInner::flush_async: starts the write-back and returns; the pages reach
\* storage later (WriteBack), if at all before the next synchronous flush.
Inner_flush_async(m) ==
    IF m.kind = "file" /\ m.prot # "ReadCopy"
    THEN {[res |-> "ok", disk |-> disk], [res |-> "io", disk |-> disk]}
    ELSE {[res |-> "ok", disk |-> disk]}

\* Drop for MmapInner: unmap the region (and close the file). The region's
\* bytes are gone; a ReadWrite file mapping makes a best-effort flush first.
Inner_drop(m) ==
    {[inner |-> [m EXCEPT !.st = "unmapped", !.unmaps = m.unmaps + 1,
                          !.mem = IF m.mem = <<>> THEN <<>> ELSE Zeros(m.len),
                          !.own = {}],
      disk |-> d] :
        d \in IF m.kind = "file" /\ m.prot = "ReadWrite" THEN {disk, cache} ELSE {disk}}

(***************************************************************************)
(* Slices and std::io::Write for &mut [u8], as the facade and its tests    *)
(* use them                                                                *)
(***************************************************************************)

Ranges ==
    {[kind |-> "Range", a |-> a, b |-> b] : a \in 0..MaxLen + 1, b \in 0..MaxLen + 1}
    \cup {[kind |-> "RangeTo", a |-> 0, b |-> b] : b \in 0..MaxLen + 1}
    \cup {[kind |-> "RangeFrom", a |-> a, b |-> 0] : a \in 0..MaxLen + 1}
    \cup {[kind |-> "RangeFull", a |-> 0, b |-> 0]}

Oob == [res |-> "oob", lo |-> 0, hi |-> 0]

Panic == [res |-> "panic", lo |-> 0, hi |-> 0]

\* [u8]'s index by a range lo..hi: out of bounds when the range is reversed
\* or ends past the slice.
slice_index(len, lo, hi) ==
    IF lo > hi \/ hi > len THEN Oob ELSE [res |-> "ok", lo |-> lo, hi |-> hi]

\* The range lo..hi a range value denotes on a slice of len bytes.
range_lo(rng, len) == IF rng.kind \in {"Range", "RangeFrom"} THEN rng.a ELSE 0

range_hi(rng, len) == IF rng.kind \in {"Range", "RangeTo"} THEN rng.b ELSE len

\* Write for &mut [u8]: copies as many bytes as fit and returns the count.
slice_write(avail, buf) == Min(avail, Len(buf))

\* Write::write_all over Write for &mut [u8]: writes until the buffer is
\* empty; a write of 0 bytes is the error "failed to write whole buffer".
RECURSIVE write_all(_, _)
write_all(avail, buf) ==
    IF Len(buf) = 0 THEN [res |-> "ok", n |-> 0]
    ELSE LET n == slice_write(avail, buf) IN
         IF n = 0 THEN [res |-> "writezero", n |-> 0]
         ELSE LET r == write_all(avail - n, SubSeq(buf, n + 1, Len(buf))) IN
              [res |-> r.res, n |-> n + r.n]

(***************************************************************************)
(* The Mmap facade (src/lib.rs)                                            *)
(***************************************************************************)

\* Mmap::open forwarding a shared read-write mapping whatever was asked.
Mmap_open_shared(prot) == Inner_open("ReadWrite")

Mmap_open(prot) == Inner_open(prot)

\* Mmap::anonymous turning every failure of the backend into one error.
Mmap_anonymous_lossy(len, prot) ==
    IF Inner_anonymous(len, prot).res = "ok" THEN Inner_anonymous(len, prot)
    ELSE [res |-> "io", inner |-> NoMapping]

Mmap_anonymous(len, prot) == Inner_anonymous(len, prot)

\* Mmap::flush forwarding to flush_async.
Mmap_flush_unsynced(m) == Inner_flush_async(m)

Mmap_flush(m) == Inner_flush(m)

Mmap_flush_async(m) == Inner_flush_async(m)

\* Mmap::len returning the last index.
Mmap_len_last_index(m) == Inner_len(m) - 1

Mmap_len(m) == Inner_len(m)

Mmap_deref(m, pages) == Inner_deref(m, pages)

\* DerefMut for Mmap reaching the region without the backend's guard.
Mmap_deref_mut_unguarded(m) == "ok"

Mmap_deref_mut(m) == Inner_deref_mut(m)

\* Index<usize>: &(*self.inner)[index]
Mmap_index(m, i) ==
    IF i < Len(Inner_deref(m, cache))
    THEN [res |-> "ok", val |-> <<Inner_deref(m, cache)[i + 1]>>]
    ELSE [res |-> "oob", val |-> <<>>]

\* IndexMut<usize>: &mut (*self.inner)[index]
Mmap_index_mut(m, i) ==
    IF Inner_deref_mut(m) = "panic" THEN Panic
    ELSE IF i < Inner_len(m) THEN [res |-> "ok", lo |-> i, hi |-> i + 1]
    ELSE Oob

\* Index<Range..> cutting the range down to the mapping.
Mmap_index_range_clamped(m, rng) ==
    LET len == Len(Mmap_deref(m, cache)) IN
    [res |-> "ok", lo |-> Min(Min(range_lo(rng, len), range_hi(rng, len)), len),
     hi |-> Min(range_hi(rng, len), len)]

\* Index<Range>, Index<RangeTo>, Index<RangeFrom>: Index::index(&**self, index);
\* Index<RangeFull>: self.
Mmap_index_range(m, rng) ==
    LET len == Len(Mmap_deref(m, cache)) IN
    IF rng.kind = "RangeFull"
    THEN [res |-> "ok", lo |-> 0, hi |-> len]
    ELSE slice_index(len, range_lo(rng, len), range_hi(rng, len))

\* IndexMut<RangeFrom> with the body of IndexMut<RangeFull>.
Mmap_index_mut_range_from_as_full(m, rng) ==
    IF Mmap_deref_mut(m) = "panic" THEN Panic
    ELSE IF rng.kind \in {"RangeFull", "RangeFrom"}
    THEN [res |-> "ok", lo |-> 0, hi |-> Mmap_len(m)]
    ELSE slice_index(Mmap_len(m), range_lo(rng, Mmap_len(m)), range_hi(rng, Mmap_len(m)))

\* IndexMut<Range>, IndexMut<RangeTo>, IndexMut<RangeFrom>:
\* IndexMut::index_mut(&mut **self, index); IndexMut<RangeFull>: self.
Mmap_index_mut_range(m, rng) ==
    IF Mmap_deref_mut(m) = "panic" THEN Panic
    ELSE IF rng.kind = "RangeFull"
    THEN [res |-> "ok", lo |-> 0, hi |-> Mmap_len(m)]
    ELSE slice_index(Mmap_len(m), range_lo(rng, Mmap_len(m)), range_hi(rng, Mmap_len(m)))

(***************************************************************************)
(* What the callers of the facade do with it (the tests of src/lib.rs):    *)
(* each expression's result, the mapping after it and the file's pages     *)
(* after it.                                                               *)
(***************************************************************************)

\* &mmap[rng]
Mmap_slice(m, rng) ==
    LET r == Mmap_index_range(m, rng) IN
    [res |-> r.res,
     val |-> IF r.res = "ok" THEN SubSeq(Mmap_deref(m, cache), r.lo + 1, r.hi) ELSE <<>>]

\* mmap[i] = v
Mmap_assign(m, i, v) ==
    LET r == Mmap_index_mut(m, i) IN
    IF r.res = "ok"
    THEN [res |-> "ok", n |-> 1, m |-> StoreMem(m, r.lo, <<v>>),
          pages |-> StoreCache(m, r.lo, <<v>>)]
    ELSE [res |-> r.res, n |-> 0, m |-> m, pages |-> cache]

\* (&mut mmap[rng]).write(buf)
Mmap_write(m, rng, buf) ==
    LET r == Mmap_index_mut_range(m, rng) IN
    IF r.res = "ok"
    THEN LET n == slice_write(r.hi - r.lo, buf) IN
         [res |-> "ok", n |-> n, m |-> StoreMem(m, r.lo, SubSeq(buf, 1, n)),
          pages |-> StoreCache(m, r.lo, SubSeq(buf, 1, n))]
    ELSE [res |-> r.res, n |-> 0, m |-> m, pages |-> cache]

\* (&mut mmap[rng]).write_all(buf); mmap.as_mut().write_all(buf) with rng = ..
Mmap_write_all(m, rng, buf) ==
    LET r == Mmap_index_mut_range(m, rng) IN
    IF r.res = "ok"
    THEN LET w == write_all(r.hi - r.lo, buf) IN
         [res |-> w.res, n |-> w.n, m |-> StoreMem(m, r.lo, SubSeq(buf, 1, w.n)),
          pages |-> StoreCache(m, r.lo, SubSeq(buf, 1, w.n))]
    ELSE [res |-> r.res, n |-> 0, m |-> m, pages |-> cache]

(***************************************************************************)
(* Calls                                                                   *)
(***************************************************************************)

NoCall == [op |-> "none", h |-> 0, res |-> "ok", n |-> 0, val |-> <<>>]

Call(op, h, res, n, val) == [op |-> op, h |-> h, res |-> res, n |-> n, val |-> val]

FreeSlot(h) ==
    /\ handle[h].st = "free"
    /\ \A g \in Handles : g < h => handle[g].st # "free"

\* Mmap::open(path, prot)
Open(t, h, prot) ==
    /\ t = "main"
    /\ FreeSlot(h)
    /\ asked' = [asked EXCEPT ![h] = prot]
    /\ LET r == Mmap_open(prot) IN
         IF r.res = "ok"
         THEN /\ handle' = [handle EXCEPT ![h] = r.inner]
              /\ held' = [held EXCEPT ![t] = @ \cup {h}]
              /\ last' = Call("open", h, "ok", 0, <<>>)
         ELSE /\ UNCHANGED <<handle, held>>
              /\ last' = Call("open", 0, r.res, 0, <<>>)
    /\ UNCHANGED <<fmeta, orig, disk, cache>>

\* Mmap::anonymous(len, prot)
Anonymous(t, h, len, prot) ==
    /\ t = "main"
    /\ FreeSlot(h)
    /\ asked' = [asked EXCEPT ![h] = prot]
    /\ LET r == Mmap_anonymous(len, prot) IN
         IF r.res = "ok"
         THEN /\ handle' = [handle EXCEPT ![h] = r.inner]
              /\ held' = [held EXCEPT ![t] = @ \cup {h}]
              /\ last' = Call("anonymous", h, "ok", len, <<>>)
         ELSE /\ UNCHANGED <<handle, held>>
              /\ last' = Call("anonymous", 0, r.res, len, <<>>)
    /\ UNCHANGED <<fmeta, orig, disk, cache>>

\* mmap.len()
LenCall(t, h) ==
    /\ h \in held[t]
    /\ last' = Call("len", h, "ok", Mmap_len(handle[h]), <<>>)
    /\ UNCHANGED <<fmeta, orig, disk, cache, handle, asked, held>>

\* mmap[i]
Index(t, h, i) ==
    /\ h \in held[t]
    /\ LET r == Mmap_index(handle[h], i) IN
         last' = Call("index", h, r.res, 0, r.val)
    /\ UNCHANGED <<fmeta, orig, disk, cache, handle, asked, held>>

\* &mmap[rng]
Slice(t, h, rng) ==
    /\ h \in held[t]
    /\ LET r == Mmap_slice(handle[h], rng) IN
         last' = Call("slice", h, r.res, 0, r.val)
    /\ UNCHANGED <<fmeta, orig, disk, cache, handle, asked, held>>

\* &mut mmap[rng]
SliceMut(t, h, rng) ==
    /\ h \in held[t]
    /\ LET r == Mmap_index_mut_range(handle[h], rng) IN
         last' = Call("slice_mut", h, r.res, r.hi - r.lo, <<>>)
    /\ UNCHANGED <<fmeta, orig, disk, cache, handle, asked, held>>

\* mmap[i] = v
IndexAssign(t, h, i, v) ==
    /\ h \in held[t]
    /\ LET e == Mmap_assign(handle[h], i, v) IN
         /\ handle' = [handle EXCEPT ![h] = e.m]
         /\ cache' = e.pages
         /\ last' = Call("index_mut", h, e.res, e.n, <<>>)
    /\ UNCHANGED <<fmeta, orig, disk, asked, held>>

\* (&mut mmap[rng]).write(buf)
Write(t, h, rng, buf) ==
    /\ h \in held[t]
    /\ LET e == Mmap_write(handle[h], rng, buf) IN
         /\ handle' = [handle EXCEPT ![h] = e.m]
         /\ cache' = e.pages
         /\ last' = Call("write", h, e.res, e.n, <<>>)
    /\ UNCHANGED <<fmeta, orig, disk, asked, held>>

\* (&mut mmap[rng]).write_all(buf)
WriteAll(t, h, rng, buf) ==
    /\ h \in held[t]
    /\ LET e == Mmap_write_all(handle[h], rng, buf) IN
         /\ handle' = [handle EXCEPT ![h] = e.m]
         /\ cache' = e.pages
         /\ last' = Call("write_all", h, e.res, e.n, <<>>)
    /\ UNCHANGED <<fmeta, orig, disk, asked, held>>

\* mmap.flush()
Flush(t, h) ==
    /\ h \in held[t]
    /\ \E r \in Mmap_flush(handle[h]) :
         /\ disk' = r.disk
         /\ last' = Call("flush", h, r.res, 0, <<>>)
    /\ UNCHANGED <<fmeta, orig, cache, handle, asked, held>>

\* mmap.flush_async()
FlushAsync(t, h) ==
    /\ h \in held[t]
    /\ \E r \in Mmap_flush_async(handle[h]) :
         /\ disk' = r.disk
         /\ last' = Call("flush_async", h, r.res, 0, <<>>)
    /\ UNCHANGED <<fmeta, orig, cache, handle, asked, held>>

\* The Mmap copied into the closure instead of moved.
MoveOut_copy(hs, h) == hs

\* What the spawning thread still owns once the Mmap has been moved into the
\* closure of thread::spawn(move || ..): Mmap is neither Copy nor Clone.
MoveOut(hs, h) == hs \ {h}

\* thread::spawn(move || ..): the Mmap moves to the spawned thread.
Send(h) ==
    /\ h \in held["main"]
    /\ held' = [held EXCEPT !["main"] = MoveOut(@, h), !["worker"] = @ \cup {h}]
    /\ last' = Call("send", h, "ok", 0, <<>>)
    /\ UNCHANGED <<fmeta, orig, disk, cache, handle, asked>>

\* The owner's Mmap goes out of scope.
Drop(t, h) ==
    /\ h \in held[t]
    /\ \E r \in Inner_drop(handle[h]) :
         /\ handle' = [handle EXCEPT ![h] = r.inner]
         /\ disk' = r.disk
    /\ held' = [held EXCEPT ![t] = @ \ {h}]
    /\ last' = Call("drop", h, "ok", 0, <<>>)
    /\ UNCHANGED <<fmeta, orig, cache, asked>>

\* The OS writes one dirty page of the file to storage.
WriteBack(i) ==
    /\ i \in 1..Len(cache)
    /\ cache[i] # disk[i]
    /\ disk' = [disk EXCEPT ![i] = cache[i]]
    /\ UNCHANGED <<fmeta, orig, cache, handle, asked, held, last>>

\* The OS gives a copy-on-write mapping its own copy of a page it has not
\* written: from then on changes of the file do not show in that page.
PrivateCopy(h, i) ==
    /\ handle[h].st = "mapped"
    /\ handle[h].kind = "file"
    /\ handle[h].prot = "ReadCopy"
    /\ i \in 1..handle[h].len
    /\ i \notin handle[h].own
    /\ handle' = [handle EXCEPT ![h].own = @ \cup {i}, ![h].mem[i] = cache[i]]
    /\ UNCHANGED <<fmeta, orig, disk, cache, asked, held, last>>

\* A read of the file from outside the mapping: what it may return. Whether
\* it sees a page changed through a shared mapping before the page is written
\* back is the platform's choice.
FileReads ==
    {s \in [1..Len(disk) -> Bytes] : \A i \in 1..Len(disk) : s[i] \in {disk[i], cache[i]}}

\* file.read(&mut read)
FileRead ==
    /\ \E s \in FileReads : last' = Call("file_read", 0, "ok", Len(s), s)
    /\ UNCHANGED <<fmeta, orig, disk, cache, handle, asked, held>>

\* (&*mmap).read(&mut read)
MapRead(t, h) ==
    /\ h \in held[t]
    /\ last' = Call("read", h, "ok", Len(Mmap_deref(handle[h], cache)),
                    Mmap_deref(handle[h], cache))
    /\ UNCHANGED <<fmeta, orig, disk, cache, handle, asked, held>>

(***************************************************************************)
(* Specifications                                                          *)
(***************************************************************************)

Files ==
    {[exists |-> e, writable |-> w] : e \in BOOLEAN, w \in BOOLEAN}
        \ {[exists |-> FALSE, writable |-> TRUE]}

InitSystem ==
    /\ fmeta \in Files
    /\ orig \in (IF fmeta.exists THEN SeqsUpTo(MaxLen) ELSE {<<>>})
    /\ disk = orig
    /\ cache = orig
    /\ handle = [h \in Handles |-> NoMapping]
    /\ asked = [h \in Handles |-> "none"]
    /\ held = [t \in Threads |-> {}]
    /\ last = NoCall

Init ==
    /\ InitSystem
    /\ pc = "none"
    /\ tbuf = <<>>

\* Buffers handed to write and write_all: up to one byte more than fits.
Bufs == SeqsUpTo(MaxLen + 1)

Offsets == {[kind |-> "RangeFrom", a |-> a, b |-> 0] : a \in 0..MaxLen + 1}

Full == [kind |-> "RangeFull", a |-> 0, b |-> 0]

\* One mapping from creation to release: writes from offset 0, the flushes,
\* the move to another thread, release, and the OS at work.
Next ==
    \/ \E prot \in Protections : Open("main", 1, prot) /\ UNCHANGED scenario
    \/ \E len \in 0..MaxLen, prot \in Protections :
            Anonymous("main", 1, len, prot) /\ UNCHANGED scenario
    \/ \E t \in Threads, buf \in Bufs : Write(t, 1, Full, buf) /\ UNCHANGED scenario
    \/ \E t \in Threads : Flush(t, 1) /\ UNCHANGED scenario
    \/ \E t \in Threads : FlushAsync(t, 1) /\ UNCHANGED scenario
    \/ Send(1) /\ UNCHANGED scenario
    \/ \E t \in Threads : Drop(t, 1) /\ UNCHANGED scenario
    \/ \E i \in 1..MaxLen : WriteBack(i) /\ UNCHANGED scenario
    \/ \E i \in 1..MaxLen : PrivateCopy(1, i) /\ UNCHANGED scenario

Spec == Init /\ [][Next]_vars

\* The file, when there is one, is writable: every protection can map it.
InitAccess == Init /\ (fmeta.exists => fmeta.writable)

\* One mapping and every way to look into it and to get at its bytes: by
\* index and by range, shared and mutable.
NextAccess ==
    \/ \E prot \in Protections : Open("main", 1, prot) /\ UNCHANGED scenario
    \/ \E len \in 0..MaxLen, prot \in Protections :
            Anonymous("main", 1, len, prot) /\ UNCHANGED scenario
    \/ LenCall("main", 1) /\ UNCHANGED scenario
    \/ \E i \in 0..MaxLen + 1 : Index("main", 1, i) /\ UNCHANGED scenario
    \/ \E rng \in Ranges : Slice("main", 1, rng) /\ UNCHANGED scenario
    \/ \E rng \in Ranges : SliceMut("main", 1, rng) /\ UNCHANGED scenario
    \/ \E i \in 0..MaxLen + 1, v \in Bytes : IndexAssign("main", 1, i, v) /\ UNCHANGED scenario

SpecAccess == InitAccess /\ [][NextAccess]_vars

\* One mapping and the writes through the Write implementation of its
\* mutable slice: write from any offset, write_all over the whole mapping.
NextWrite ==
    \/ \E prot \in Protections : Open("main", 1, prot) /\ UNCHANGED scenario
    \/ \E len \in 0..MaxLen, prot \in Protections :
            Anonymous("main", 1, len, prot) /\ UNCHANGED scenario
    \/ \E rng \in Offsets, buf \in Bufs : Write("main", 1, rng, buf) /\ UNCHANGED scenario
    \/ \E buf \in Bufs : WriteAll("main", 1, Full, buf) /\ UNCHANGED scenario

SpecWrite == InitAccess /\ [][NextWrite]_vars

\* The step of a test body from position `from`: a failed unwrap() panics.
Goes(from, to) ==
    /\ pc = from
    /\ pc' = IF last'.res = "ok" THEN to ELSE "panicked"

\* test::file_write, for any file length, any original contents and any
\* buffer: open ReadWrite, write the buffer at offset 0, flush, read the
\* file through the descriptor opened before the mapping was made.
InitFileWrite ==
    /\ InitSystem
    /\ fmeta = [exists |-> TRUE, writable |-> TRUE]
    /\ Len(orig) > 0
    /\ pc = "open"
    /\ tbuf \in Bufs

NextFileWrite ==
    \/ Open("main", 1, "ReadWrite") /\ Goes("open", "write") /\ UNCHANGED tbuf
    \/ Write("main", 1, Full, tbuf) /\ Goes("write", "flush") /\ UNCHANGED tbuf
    \/ Flush("main", 1) /\ Goes("flush", "read") /\ UNCHANGED tbuf
    \/ FileRead /\ Goes("read", "done") /\ UNCHANGED tbuf
    \/ \E i \in 1..MaxLen : WriteBack(i) /\ UNCHANGED scenario

SpecFileWrite == InitFileWrite /\ [][NextFileWrite]_vars

\* test::map_copy, for any file and any writes: open ReadCopy, write buffers
\* at offset 0, flush, read the mapping, read the file, map the file again
\* with Protection::Read and read that mapping.
InitMapCopy ==
    /\ InitSystem
    /\ fmeta = [exists |-> TRUE, writable |-> TRUE]
    /\ Len(orig) > 0
    /\ pc = "open"
    /\ tbuf = <<>>

NextMapCopy ==
    \/ Open("main", 1, "ReadCopy") /\ Goes("open", "write") /\ UNCHANGED tbuf
    \/ \E buf \in Bufs :
            Write("main", 1, Full, buf) /\ Goes("write", "write") /\ tbuf' = buf
    \/ Flush("main", 1) /\ Goes("write", "flushed") /\ UNCHANGED tbuf
    \/ MapRead("main", 1) /\ Goes("flushed", "mapread") /\ UNCHANGED tbuf
    \/ FileRead /\ Goes("mapread", "fileread") /\ UNCHANGED tbuf
    \/ Open("main", 2, "Read") /\ Goes("fileread", "reopened") /\ UNCHANGED tbuf
    \/ MapRead("main", 2) /\ Goes("reopened", "done") /\ UNCHANGED tbuf
    \/ \E i \in 1..MaxLen : PrivateCopy(1, i) /\ UNCHANGED scenario

SpecMapCopy == InitMapCopy /\ [][NextMapCopy]_vars

(***************************************************************************)
(* Properties                                                              *)
(***************************************************************************)

Writable == {"ReadWrite", "ReadCopy"}

From(o) == [kind |-> "RangeFrom", a |-> o, b |-> 0]

\* The range a range value is meant to denote lies within len bytes.
InBounds(rng, len) ==
    CASE rng.kind = "Range" -> rng.a <= rng.b /\ rng.b <= len
      [] rng.kind = "RangeTo" -> rng.b <= len
      [] rng.kind = "RangeFrom" -> rng.a <= len
      [] OTHER -> TRUE

\* C1: test::file_write for any file and buffer. When the body has run to
\* its end (open ReadWrite, write the buffer at offset 0, successful flush,
\* read of the file from outside the mapping) and the buffer is no longer
\* than the file, what was read is the buffer followed by the file's
\* original bytes from the buffer's length on.
C1_RoundTrip ==
    (pc = "done" /\ Len(tbuf) <= Len(orig)) =>
        /\ last.op = "file_read"
        /\ last.val = tbuf \o SubSeq(orig, Len(tbuf) + 1, Len(orig))

C1_Witness ==
    /\ pc = "done"
    /\ Len(tbuf) > 0
    /\ Len(tbuf) < Len(orig)
    /\ tbuf[1] # orig[1]
    /\ orig[Len(orig)] # 0

\* C2: test::map_copy for any file and any writes. In every state of the
\* body the file holds its original contents, on storage and in its pages,
\* and a read of it returns them; after the flush the ReadCopy mapping reads
\* back the bytes last written; the file read directly and the fresh Read
\* mapping both return the original contents.
C2_Isolation ==
    /\ disk = orig
    /\ cache = orig
    /\ FileReads = {orig}
    /\ pc \in {"flushed", "mapread", "fileread", "reopened", "done"} =>
          LET k == Min(Len(tbuf), Len(orig)) IN
          SubSeq(Mmap_deref(handle[1], cache), 1, k) = SubSeq(tbuf, 1, k)
    /\ pc = "mapread" =>
          LET k == Min(Len(tbuf), Len(orig)) IN SubSeq(last.val, 1, k) = SubSeq(tbuf, 1, k)
    /\ pc = "fileread" => last.val = orig
    /\ pc = "reopened" => Mmap_deref(handle[2], cache) = orig
    /\ pc = "done" => last.val = orig

C2_Witness ==
    /\ pc = "done"
    /\ Len(tbuf) > 0
    /\ tbuf[1] # orig[1]
    /\ Mmap_deref(handle[1], cache)[1] = tbuf[1]

\* C3: on a mapping created with Protection::Read every way to mutable
\* access (a mutable range, an assignment by index, write and write_all
\* through the mutable slice) panics and stores nothing, and the mapping
\* still reads what it read when it was created: the file's original
\* contents, which the file still holds, or zeros.
C3_ReadOnlyPanics ==
    \A h \in Handles :
        (handle[h].st = "mapped" /\ asked[h] = "Read") =>
            LET m == handle[h] IN
            /\ \A rng \in Ranges : Mmap_index_mut_range(m, rng).res = "panic"
            /\ \A i \in 0..MaxLen + 1, v \in Bytes :
                  LET e == Mmap_assign(m, i, v) IN
                  e.res = "panic" /\ e.m = m /\ e.pages = cache
            /\ \A rng \in Ranges, buf \in Bufs :
                  LET e == Mmap_write(m, rng, buf)
                      a == Mmap_write_all(m, rng, buf) IN
                  /\ e.res = "panic" /\ e.m = m /\ e.pages = cache
                  /\ a.res = "panic" /\ a.m = m /\ a.pages = cache
            /\ Mmap_deref(m, cache) = IF m.kind = "file" THEN orig ELSE Zeros(m.len)
            /\ m.kind = "file" => cache = orig /\ disk = orig

C3_Witness ==
    /\ handle[1].st = "mapped"
    /\ handle[1].kind = "file"
    /\ asked[1] = "Read"
    /\ last.op = "write"
    /\ last.res = "panic"

\* C4: on a writable mapping of len bytes, a buffer of more than len - o
\* bytes written at offset o <= len through &mut mmap[o..] stores exactly
\* its first len - o bytes at [o, len) and leaves [0, o) and the length
\* alone; write returns the count len - o and write_all fails with
\* "failed to write whole buffer" after the same stores.
C4_PartialWrite ==
    \A h \in Handles :
        (handle[h].st = "mapped" /\ asked[h] \in Writable) =>
            LET m == handle[h]
                len == Mmap_len(m)
                before == Mmap_deref(m, cache) IN
            \A o \in 0..len, buf \in Bufs :
                Len(buf) > len - o =>
                    LET e == Mmap_write(m, From(o), buf)
                        a == Mmap_write_all(m, From(o), buf)
                        after == Mmap_deref(e.m, e.pages) IN
                    /\ e.res = "ok"
                    /\ e.n = len - o
                    /\ Mmap_len(e.m) = len
                    /\ Len(after) = len
                    /\ Len(e.pages) = Len(cache)
                    /\ \A k \in 1..len :
                          after[k] = IF k > o THEN buf[k - o] ELSE before[k]
                    /\ a.res = "writezero"
                    /\ a.n = len - o
                    /\ a.m = e.m
                    /\ a.pages = e.pages

C4_Witness ==
    /\ handle[1].st = "mapped"
    /\ last.op = "write_all"
    /\ last.res = "writezero"
    /\ last.n = Mmap_len(handle[1])
    /\ Mmap_deref(handle[1], cache) # Zeros(Mmap_len(handle[1]))

\* C5: right after anonymous(n, ReadWrite) with n > 0 the call has
\* succeeded, the mapping's len() is n and each of its n bytes reads 0.
C5_AnonymousZeroed ==
    (last.op = "anonymous" /\ last.n > 0 /\ asked[1] = "ReadWrite") =>
        /\ last.res = "ok"
        /\ last.h = 1
        /\ handle[1].st = "mapped"
        /\ Mmap_len(handle[1]) = last.n
        /\ Mmap_deref(handle[1], cache) = Zeros(last.n)
        /\ \A i \in 0..last.n - 1 : Mmap_index(handle[1], i) = [res |-> "ok", val |-> <<0>>]

C5_Witness ==
    /\ last.op = "anonymous"
    /\ last.n = MaxLen
    /\ asked[1] = "ReadWrite"
    /\ handle[1].st = "mapped"

\* C6: right after open, over an existing file of length 0 the call has
\* failed and there is no mapping; over an existing file of L > 0 bytes
\* whose permissions allow what the protection needs (the file is writable,
\* or the protection is Read) the call has succeeded with len() = L.
C6_OpenLength ==
    (last.op = "open" /\ fmeta.exists) =>
        /\ Len(disk) = 0 =>
              /\ last.res # "ok"
              /\ last.h = 0
              /\ handle[1].st = "free"
              /\ \A t \in Threads : held[t] = {}
        /\ (Len(disk) > 0 /\ (fmeta.writable \/ asked[1] = "Read")) =>
              /\ last.res = "ok"
              /\ handle[1].st = "mapped"
              /\ Mmap_len(handle[1]) = Len(disk)

C6_Witness ==
    /\ last.op = "open"
    /\ fmeta.exists
    /\ Len(disk) = 0
    /\ last.res # "ok"

\* C7: right after anonymous(0, protection), for each protection, the call
\* has failed with the invalid-argument error, not the I/O error, and there
\* is no mapping.
C7_AnonymousZeroLength ==
    (last.op = "anonymous" /\ last.n = 0) =>
        /\ last.res = "invalid"
        /\ last.h = 0
        /\ handle[1].st = "free"
        /\ \A t \in Threads : held[t] = {}

C7_Witness ==
    /\ last.op = "anonymous"
    /\ last.n = 0
    /\ asked[1] = "ReadCopy"
    /\ last.res = "invalid"

\* C8: on a mapping of len bytes, a read by index i succeeds, with byte i,
\* exactly when i < len; a read by range succeeds exactly when the range lies
\* within [0, len] with its ends in order, and then yields exactly the bytes
\* of that range; otherwise both fail as out of bounds. A mutable access
\* that succeeds is within bounds and is that range; one out of bounds
\* fails (as out of bounds on a writable mapping, with the panic of a Read
\* mapping otherwise), and an assignment or a write through it stores
\* nothing.
C8_OutOfBounds ==
    \A h \in Handles :
        handle[h].st = "mapped" =>
            LET m == handle[h]
                len == m.len
                view == Mmap_deref(m, cache) IN
            /\ \A i \in 0..MaxLen + 1 :
                  /\ Mmap_index(m, i) =
                        IF i < len THEN [res |-> "ok", val |-> <<view[i + 1]>>]
                        ELSE [res |-> "oob", val |-> <<>>]
                  /\ \A v \in Bytes :
                        LET e == Mmap_assign(m, i, v) IN
                        /\ e.res = "ok" => i < len
                        /\ i >= len => /\ e.res = IF asked[h] = "Read" THEN "panic" ELSE "oob"
                                       /\ e.m = m
                                       /\ e.pages = cache
            /\ \A rng \in Ranges :
                  LET lo == IF rng.kind \in {"Range", "RangeFrom"} THEN rng.a ELSE 0
                      hi == IF rng.kind \in {"Range", "RangeTo"} THEN rng.b ELSE len
                      r == Mmap_slice(m, rng)
                      w == Mmap_index_mut_range(m, rng) IN
                  /\ r = IF InBounds(rng, len)
                         THEN [res |-> "ok", val |-> SubSeq(view, lo + 1, hi)]
                         ELSE [res |-> "oob", val |-> <<>>]
                  /\ w.res = "ok" => InBounds(rng, len) /\ w.lo = lo /\ w.hi = hi
                  /\ ~InBounds(rng, len) =>
                        /\ w.res = IF asked[h] = "Read" THEN "panic" ELSE "oob"
                        /\ \A buf \in Bufs :
                              LET e == Mmap_write(m, rng, buf) IN
                              e.res = w.res /\ e.m = m /\ e.pages = cache

C8_Witness ==
    /\ handle[1].st = "mapped"
    /\ Mmap_deref(handle[1], cache) # Zeros(handle[1].len)
    /\ last.op = "slice"
    /\ last.res = "oob"

\* C9: a mapping is unmapped at most once, and exactly once when it has been
\* released; a mapped region is owned by exactly one thread, whichever it
\* was moved to; no thread owns a handle to a region that has been unmapped,
\* so that no call can reach it; and the last write, flush or flush_async
\* was made on a region that is still mapped.
C9_ReleasedOnce ==
    /\ \A h \in Handles :
          /\ handle[h].unmaps <= 1
          /\ handle[h].st = "unmapped" <=> handle[h].unmaps = 1
          /\ handle[h].st = "mapped" => Cardinality({t \in Threads : h \in held[t]}) = 1
          /\ handle[h].st # "mapped" => \A t \in Threads : h \notin held[t]
    /\ last.op \in {"write", "flush", "flush_async", "send"} =>
          handle[last.h].st = "mapped"

C9_Witness ==
    /\ handle[1].st = "unmapped"
    /\ handle[1].unmaps = 1
    /\ last.op = "drop"
    /\ cache # orig

\* C10: a file mapping's file was opened for reading, and for writing
\* exactly when the protection asked for is ReadWrite or ReadCopy;
\* Protection::write is true of exactly those two.
C10_OpenOptions ==
    /\ \A p \in Protections :
          /\ Protection_write(p) <=> p \in {"ReadWrite", "ReadCopy"}
          /\ as_open_options(p).read
    /\ \A h \in Handles :
          handle[h].kind = "file" =>
              /\ handle[h].fopts.read
              /\ handle[h].fopts.write <=> asked[h] \in {"ReadWrite", "ReadCopy"}

C10_Witness ==
    /\ handle[1].st = "mapped"
    /\ handle[1].kind = "file"
    /\ asked[1] = "ReadCopy"
    /\ handle[1].fopts.write

====
